---- MODULE Spec2Model ----
(***************************************************************************)
(* Model of the best-fit memory manager of src/src/src/main.rs:            *)
(* MemoryManager (memory, free_blocks, allocated_blocks, next_id) and its  *)
(* operations insert / delete / find / read / update / dump, driven one    *)
(* command at a time by process_file.                                      *)
(*                                                                         *)
(* A Rust panic (a slice copy whose lengths differ, an out-of-range slice)  *)
(* aborts the run: the model records it in `panicked`, keeps the mutations  *)
(* the operation had made before the panic, and takes no further step.     *)
(***************************************************************************)
EXTENDS Integers, Sequences, FiniteSets, TLC

\* main.rs:6 sets MEMORY_SIZE to 65535; the model runs the same code on a
\* small arena.
MEMORY_SIZE == 4
\* Ids handed out per run: insert takes a block only while next_id < MaxId.
MaxId == 3
\* Longest data token of a command.
MaxLen == 2

\* Option::None of `id: Option<usize>` and of the functions' Option results.
None == -1

\* Bytes a data token can carry (a token has no whitespace and is not empty);
\* the arena starts zeroed, so 0 is never a data byte here.
DataBytes == {1, 2}

\* A byte string of length n that starts with b and alternates the two data
\* bytes, so that a shifted or misplaced copy is visible.
Pattern(b, n) == [i \in 1..n |-> IF i % 2 = 1 THEN b ELSE 3 - b]

\* tokens[2].as_bytes() of INSERT: a non-empty byte string, here of at most
\* MaxLen bytes and starting with byte 1.
InsertDatas == {Pattern(1, n) : n \in 1..MaxLen}

\* tokens[2].as_bytes() of UPDATE: likewise, starting with byte 2, so that an
\* update always differs from what insert stored.
UpdateDatas == {Pattern(2, n) : n \in 1..MaxLen}

\* tokens[1].parse::<usize>() of INSERT: a size, 0 included, here up to one
\* more than the longest data token.
Sizes == 0..(MaxLen + 1)

\* tokens[1].parse::<usize>() of DELETE/FIND/READ/UPDATE: any id.
Ids == 0..MaxId

VARIABLES
    memory,            \* [u8; MEMORY_SIZE], indexed 0..MEMORY_SIZE-1
    free_blocks,       \* BTreeMap<usize, Vec<MemoryBlock>>: key -> sequence
    allocated_blocks,  \* BTreeMap<usize, MemoryBlock>: id -> block
    next_id,           \* usize
    panicked,          \* the run was aborted by a panic
    last,              \* the last command and what it reported
    returned,          \* history: ids returned by insert, in order
    freed,             \* history: free blocks that delete put in the index
    deleted            \* history: the ids that delete has released
                       \* and insert has not taken out since

vars == <<memory, free_blocks, allocated_blocks, next_id, panicked, last,
          returned, freed, deleted>>

MemoryBlock(start, size, allocated, id) ==
    [start |-> start, size |-> size, allocated |-> allocated, id |-> id]

NoBlock == MemoryBlock(0, 0, FALSE, None)

\* BTreeMap::remove
map_remove(m, k) == [j \in (DOMAIN m) \ {k} |-> m[j]]

\* BTreeMap::insert (an existing key is overwritten)
map_insert(m, k, v) == [j \in (DOMAIN m) \cup {k} |-> IF j = k THEN v ELSE m[j]]

\* free_blocks.insert(key, vec![block]): a group that is replaced, not extended.
entry_replace(fb, key, block) == map_insert(fb, key, <<block>>)

\* free_blocks.entry(key).or_insert_with(Vec::new).push(block)
entry_push(fb, key, block) ==
    map_insert(fb, key, Append(IF key \in DOMAIN fb THEN fb[key] ELSE <<>>, block))

\* memory[start..start + data.len()].copy_from_slice(data)
copy_from_slice(mem, start, data) ==
    [i \in DOMAIN mem |->
        IF start <= i /\ i < start + Len(data) THEN data[i - start + 1] ELSE mem[i]]

\* &memory[start..start + size]
slice(mem, start, size) == [i \in 1..size |-> mem[start + i - 1]]

\* The largest qualifying key instead of the smallest (max_by_key).
worst_fit(fb, size) ==
    LET fit == {k \in DOMAIN fb : k >= size}
    IN  IF fit = {} THEN None ELSE CHOOSE k \in fit : \A j \in fit : k >= j

\* insert, lines 43-46: the smallest key >= size, or None.
best_fit(fb, size) ==
    LET fit == {k \in DOMAIN fb : k >= size}
    IN  IF fit = {} THEN None ELSE CHOOSE k \in fit : \A j \in fit : k <= j

\* An allocation that keeps the whole free block instead of the size asked for.
allocated_block_whole(block, size, new_id) ==
    MemoryBlock(block.start, block.size, TRUE, new_id)

\* insert, lines 60-65
allocated_block(block, size, new_id) == MemoryBlock(block.start, size, TRUE, new_id)

\* A leftover that starts where the consumed block starts.
remaining_block_unshifted(block, size) ==
    MemoryBlock(block.start, block.size - size, FALSE, None)

\* insert, lines 70-75
remaining_block(block, size) ==
    MemoryBlock(block.start + size, block.size - size, FALSE, None)

\* delete, lines 87-92
new_block(block) == MemoryBlock(block.start, block.size, FALSE, None)

Report(op, size, data, id, res, block, view, report) ==
    [op |-> op, size |-> size, data |-> data, id |-> id, res |-> res,
     block |-> block, view |-> view, report |-> report]

Init ==
    /\ memory = [i \in 0..(MEMORY_SIZE - 1) |-> 0]
    /\ free_blocks = (MEMORY_SIZE :> <<MemoryBlock(0, MEMORY_SIZE, FALSE, None)>>)
    /\ allocated_blocks = <<>>
    /\ next_id = 0
    /\ panicked = FALSE
    /\ last = Report("new", 0, <<>>, None, "new", NoBlock, <<>>, <<>>)
    /\ returned = <<>>
    /\ freed = {}
    /\ deleted = {}

\* A pop that takes the oldest block of the group.
pick_front(blocks) == 1

\* insert, line 50: blocks.pop() takes the last element of the Vec.
pick(blocks) == Len(blocks)

\* insert, line 50 (blocks.pop()) and lines 51-53: the last block of the group
\* leaves it, and an emptied group leaves the map.
pop_block(fb, block_size) ==
    LET blocks == fb[block_size]
        p      == pick(blocks)
        rest   == [i \in 1..(Len(blocks) - 1) |-> IF i < p THEN blocks[i] ELSE blocks[i + 1]]
    IN  IF rest = <<>> THEN map_remove(fb, block_size)
        ELSE [fb EXCEPT ![block_size] = rest]

\* A leftover that is never given back.
push_remaining_dropped(fb, block, size) == fb

\* A leftover that is given back even when nothing is left over.
push_remaining_always(fb, block, size) ==
    IF block.size >= size
    THEN entry_push(fb, block.size - size, remaining_block(block, size))
    ELSE fb

\* insert, lines 69-77: the leftover of a larger block goes back to the index.
push_remaining(fb, block, size) ==
    IF block.size > size
    THEN entry_push(fb, block.size - size, remaining_block(block, size))
    ELSE fb

\* A counter that is never advanced.
bump_stuck(id) == id

\* insert, line 56
bump(id) == id + 1

\* A failed insert that has already taken its id from the counter.
insert_none_id_taken(size, data) ==
    /\ next_id' = next_id + 1
    /\ UNCHANGED <<memory, free_blocks, allocated_blocks, panicked, returned, freed, deleted>>
    /\ last' = Report("insert", size, data, None, "AllocationFailed", NoBlock, <<>>, <<>>)

\* insert, line 82, reported by process_file, lines 158-160: no group
\* qualifies, None is returned and "Memory allocation failed" is printed.
insert_none(size, data) ==
    /\ UNCHANGED <<memory, free_blocks, allocated_blocks, next_id, panicked, returned, freed, deleted>>
    /\ last' = Report("insert", size, data, None, "AllocationFailed", NoBlock, <<>>, <<>>)

\* insert, lines 49-79, reported by process_file, lines 156-157.
insert_some(size, data, block_size) ==
    LET blocks == free_blocks[block_size]
        block  == blocks[pick(blocks)]
        fb1    == pop_block(free_blocks, block_size)
        new_id == next_id
    IN  IF block.start + size > MEMORY_SIZE \/ Len(data) # size
        THEN \* line 58 panics: slice out of range, or copy_from_slice of
             \* slices of different lengths
             /\ free_blocks' = fb1
             /\ next_id' = bump(next_id)
             /\ panicked' = TRUE
             /\ freed' = freed \ {block}
             /\ UNCHANGED deleted
             /\ UNCHANGED <<memory, allocated_blocks, returned>>
             /\ last' = Report("insert", size, data, None, "panic", block, <<>>, <<>>)
        ELSE /\ next_id' = bump(next_id)
             /\ memory' = copy_from_slice(memory, block.start, data)
             /\ allocated_blocks' =
                    map_insert(allocated_blocks, new_id, allocated_block(block, size, new_id))
             /\ free_blocks' = push_remaining(fb1, block, size)
             /\ returned' = Append(returned, new_id)
             /\ freed' = freed \ {block}
             /\ UNCHANGED deleted
             /\ UNCHANGED panicked
             /\ last' = Report("insert", size, data, new_id, "Allocated", block, <<>>, <<>>)

\* process_file, lines 150-162 (a well-formed INSERT record) calling
\* MemoryManager::insert, lines 42-83.
insert(size, data) ==
    /\ ~panicked
    /\ LET block_size == best_fit(free_blocks, size)
       IN  IF block_size = None \/ free_blocks[block_size] = <<>>
           THEN insert_none(size, data)
           ELSE next_id < MaxId /\ insert_some(size, data, block_size)

\* The free blocks of an index that end where b starts.
Before(fb, b) ==
    UNION {{<<k, i>> : i \in {j \in 1..Len(fb[k]) : fb[k][j].start + fb[k][j].size = b.start}}
           : k \in DOMAIN fb}

\* A delete that merges the freed block into the free block right before it.
free_push_coalescing(fb, block) ==
    IF Before(fb, block) = {}
    THEN entry_push(fb, block.size, new_block(block))
    ELSE LET h   == CHOOSE x \in Before(fb, block) : TRUE
             f   == fb[h[1]][h[2]]
             grp == [i \in 1..(Len(fb[h[1]]) - 1) |->
                        IF i < h[2] THEN fb[h[1]][i] ELSE fb[h[1]][i + 1]]
             fb1 == IF grp = <<>> THEN map_remove(fb, h[1])
                    ELSE [fb EXCEPT ![h[1]] = grp]
         IN  entry_push(fb1, f.size + block.size,
                        MemoryBlock(f.start, f.size + block.size, FALSE, None))

\* delete, line 93: the freed extent goes to the group of its size.
free_push(fb, block) == entry_push(fb, block.size, new_block(block))

\* A delete that looks the block up and leaves its entry in the table.
table_remove_kept(ab, id) == ab

\* delete, line 86: allocated_blocks.remove(&id)
table_remove(ab, id) == map_remove(ab, id)

\* process_file, lines 163-171, calling MemoryManager::delete, lines 85-98.
delete(id) ==
    /\ ~panicked
    /\ IF id \in DOMAIN allocated_blocks
       THEN LET block == allocated_blocks[id]
            IN  /\ allocated_blocks' = table_remove(allocated_blocks, id)
                /\ free_blocks' = free_push(free_blocks, block)
                /\ freed' = freed \cup {new_block(block)}
                /\ deleted' = deleted \cup {id}
                /\ last' = Report("delete", 0, <<>>, id, "Deleted", block, <<>>, <<>>)
       ELSE /\ UNCHANGED <<allocated_blocks, free_blocks, freed, deleted>>
            /\ last' = Report("delete", 0, <<>>, id, "NotFound", NoBlock, <<>>, <<>>)
    /\ UNCHANGED <<memory, next_id, panicked, returned>>

\* process_file, lines 172-184, calling MemoryManager::find, lines 100-104:
\* the bytes of the block, or nothing.
find(id) ==
    /\ ~panicked
    /\ IF id \in DOMAIN allocated_blocks
       THEN LET block == allocated_blocks[id]
            IN  last' = Report("find", 0, <<>>, id, "Found", NoBlock,
                               slice(memory, block.start, block.size), <<>>)
       ELSE last' = Report("find", 0, <<>>, id, "Nothing", NoBlock, <<>>, <<>>)
    /\ UNCHANGED <<memory, free_blocks, allocated_blocks, next_id, panicked,
                   returned, freed, deleted>>

\* process_file, lines 186-192, calling MemoryManager::read, lines 105-110:
\* prints the block descriptor found in allocated_blocks ({:?} of the
\* MemoryBlock), not the bytes of the arena.
read(id) ==
    /\ ~panicked
    /\ IF id \in DOMAIN allocated_blocks
       THEN last' = Report("read", 0, <<>>, id, "Data", allocated_blocks[id], <<>>, <<>>)
       ELSE last' = Report("read", 0, <<>>, id, "NotFound", NoBlock, <<>>, <<>>)
    /\ UNCHANGED <<memory, free_blocks, allocated_blocks, next_id, panicked,
                   returned, freed, deleted>>

\* A size check that turns away data that fills the block exactly.
fits_block_strict(new_data, block) == Len(new_data) < block.size

\* update, line 114
fits_block(new_data, block) == Len(new_data) <= block.size

\* An update that also clears the rest of the block.
update_memory_cleared(mem, block, new_data) ==
    [i \in DOMAIN mem |->
        IF block.start <= i /\ i < block.start + Len(new_data)
        THEN new_data[i - block.start + 1]
        ELSE IF block.start <= i /\ i < block.start + block.size THEN 0 ELSE mem[i]]

\* update, line 115
update_memory(mem, block, new_data) == copy_from_slice(mem, block.start, new_data)

\* process_file, lines 194-202, calling MemoryManager::update, lines 112-123.
update(id, new_data) ==
    /\ ~panicked
    /\ IF id \in DOMAIN allocated_blocks
       THEN LET block == allocated_blocks[id]
            IN  IF fits_block(new_data, block)
                THEN /\ memory' = update_memory(memory, block, new_data)
                     /\ last' = Report("update", 0, new_data, id, "Updated", block, <<>>, <<>>)
                ELSE /\ UNCHANGED memory
                     /\ last' = Report("update", 0, new_data, id, "TooLarge", block, <<>>, <<>>)
       ELSE /\ UNCHANGED memory
            /\ last' = Report("update", 0, new_data, id, "NotFound", NoBlock, <<>>, <<>>)
    /\ UNCHANGED <<free_blocks, allocated_blocks, next_id, panicked, returned, freed, deleted>>

\* A map iterated from its largest key down.
RECURSIVE descending(_)
descending(S) ==
    IF S = {} THEN <<>>
    ELSE LET m == CHOOSE k \in S : \A j \in S : k >= j
         IN  <<m>> \o descending(S \ {m})

\* The keys of a BTreeMap in iteration order (ascending).
RECURSIVE ascending(_)
ascending(S) ==
    IF S = {} THEN <<>>
    ELSE LET m == CHOOSE k \in S : \A j \in S : k <= j
         IN  <<m>> \o ascending(S \ {m})

Line(kind, id, start, size) == [kind |-> kind, id |-> id, start |-> start, size |-> size]

\* dump, lines 127-131: per key ascending, the blocks of the group in Vec
\* order; the size printed is the key.
RECURSIVE free_lines(_, _)
free_lines(fb, keys) ==
    IF keys = <<>> THEN <<>>
    ELSE LET size == Head(keys)
         IN  [i \in 1..Len(fb[size]) |-> Line("FREE", None, fb[size][i].start, size)]
             \o free_lines(fb, Tail(keys))

\* dump, lines 132-134
allocated_lines(ab) ==
    LET ids == ascending(DOMAIN ab)
    IN  [i \in 1..Len(ids) |-> Line("ALLOCATED", ids[i], ab[ids[i]].start, ab[ids[i]].size)]

\* process_file, lines 208-210, calling MemoryManager::dump, lines 125-135.
dump ==
    /\ ~panicked
    /\ last' = Report("dump", 0, <<>>, None, "Dumped", NoBlock, <<>>,
                      free_lines(free_blocks, ascending(DOMAIN free_blocks))
                      \o allocated_lines(allocated_blocks))
    /\ UNCHANGED <<memory, free_blocks, allocated_blocks, next_id, panicked,
                   returned, freed, deleted>>

Next ==
    \/ \E size \in Sizes, data \in InsertDatas : insert(size, data)
    \/ \E id \in Ids : delete(id)
    \/ \E id \in Ids : find(id)
    \/ \E id \in Ids : read(id)
    \/ \E id \in Ids, new_data \in UpdateDatas : update(id, new_data)
    \/ dump

Spec == Init /\ [][Next]_vars

\* The verbs process_file matches, and one it does not know.
Verbs == {"INSERT", "DELETE", "FIND", "READ", "UPDATE", "DUMP", "LIST"}

\* The number of arguments of a record: tokens.len() - 1.
Args == 0..3

\* process_file, lines 149-213: what becomes of the record with this verb, this
\* many arguments and a first argument that parses as usize (numeric) or does
\* not. "call": the allocator is called; "Invalid": an "Error: Invalid ...
\* command" line is printed; "InvalidFormat": "Invalid READ command format";
\* "Unknown": "Error: Unknown command"; "Silent": the if let does not match,
\* nothing is printed and nothing is called.
dispatch(verb, args, numeric) ==
    CASE verb \in {"INSERT", "UPDATE"} ->
             IF args + 1 < 3 THEN "Invalid"
             ELSE IF numeric THEN "call" ELSE "Silent"
      [] verb \in {"DELETE", "FIND"} ->
             IF args + 1 < 2 THEN "Invalid"
             ELSE IF numeric THEN "call" ELSE "Silent"
      [] verb = "READ" ->
             IF args + 1 = 2
             THEN IF numeric THEN "call" ELSE "InvalidFormat"
             ELSE "Unknown"
      [] verb = "DUMP" -> "call"
      [] OTHER -> "Unknown"

\* process_file, lines 141-214: a record that leads to no allocator call; the
\* loop goes on to the next line.
skip_record(verb, args, numeric) ==
    /\ ~panicked
    /\ args = 0 => ~numeric
    /\ dispatch(verb, args, numeric) # "call"
    /\ last' = [op |-> "record", size |-> 0, data |-> <<>>, id |-> None,
                res |-> dispatch(verb, args, numeric), block |-> NoBlock,
                view |-> <<>>, report |-> <<>>,
                verb |-> verb, args |-> args, numeric |-> numeric]
    /\ UNCHANGED <<memory, free_blocks, allocated_blocks, next_id, panicked,
                   returned, freed, deleted>>

\* process_file over any line with a verb: the records that call the
\* allocator and those that do not.
NextRecords ==
    \/ Next
    \/ \E verb \in Verbs, args \in Args, numeric \in BOOLEAN : skip_record(verb, args, numeric)

SpecRecords == Init /\ [][NextRecords]_vars

(***************************************************************************)
(* Properties                                                              *)
(***************************************************************************)

\* The free blocks of an index, as a set of descriptors.
FreeSet(fb) == UNION {{fb[k][i] : i \in 1..Len(fb[k])} : k \in DOMAIN fb}

\* The live blocks, each named by the place that holds it.
FreeHandles == UNION {{<<"free", k, i>> : i \in 1..Len(free_blocks[k])} : k \in DOMAIN free_blocks}
AllocatedHandles == {<<"allocated", id, 0>> : id \in DOMAIN allocated_blocks}
LiveHandles == FreeHandles \cup AllocatedHandles

BlockAt(h) == IF h[1] = "free" THEN free_blocks[h[2]][h[3]] ELSE allocated_blocks[h[2]]

RECURSIVE SumSizes(_)
SumSizes(H) ==
    IF H = {} THEN 0
    ELSE LET h == CHOOSE x \in H : TRUE
         IN  BlockAt(h).size + SumSizes(H \ {h})

TotalSize == SumSizes(LiveHandles)

\* The bytes [start, start + size) of a block.
Extent(b) == {i \in 0..(MEMORY_SIZE + MEMORY_SIZE) : b.start <= i /\ i < b.start + b.size}

\* C1 (conservation): the sizes of the free blocks and of the allocated
\* blocks add up to at most the capacity, and to exactly the capacity in every
\* state in which no insert has panicked: so in particular in every state in
\* which no insert has failed, and also after inserts that returned None.
Conservation ==
    /\ TotalSize <= MEMORY_SIZE
    /\ ~panicked => TotalSize = MEMORY_SIZE

\* C1 witness: two blocks were allocated, one of them has just been freed, no
\* insert has failed, and the arena is cut into at least three blocks.
ConservationWitness ==
    /\ ~panicked
    /\ Len(returned) >= 2
    /\ last.op = "delete" /\ last.res = "Deleted"
    /\ Cardinality(LiveHandles) >= 3
    /\ AllocatedHandles # {}

\* C2 (non-overlap): the extents of any two distinct live blocks, free or
\* allocated, do not intersect.
NonOverlap ==
    \A g, h \in LiveHandles : g # h => Extent(BlockAt(g)) \cap Extent(BlockAt(h)) = {}

\* C2 witness: after an insert that split a free block, there are an allocated
\* block, a free block and a second allocated block side by side.
NonOverlapWitness ==
    /\ last.op = "insert" /\ last.res = "Allocated"
    /\ last.block.size > last.size
    /\ Cardinality(AllocatedHandles) >= 2
    /\ FreeHandles # {}

\* Sizes of the free blocks that can hold n bytes.
Fits(n) == {b.size : b \in {c \in FreeSet(free_blocks) : c.size >= n}}

\* The free blocks a step takes out of the index.
Consumed == FreeSet(free_blocks) \ FreeSet(free_blocks')

\* C3 (best fit): insert(n, d) returns None ("Memory allocation failed")
\* exactly when no free block has size >= n; otherwise the one free block it
\* takes out of the index has the smallest size among the free blocks of
\* size >= n.
BestFit ==
    [][last'.op = "insert" =>
        /\ (last'.res = "AllocationFailed") <=> (Fits(last'.size) = {})
        /\ (last'.res = "Allocated") =>
              \E b \in FreeSet(free_blocks) :
                  /\ Consumed = {b}
                  /\ b.size \in Fits(last'.size)
                  /\ \A k \in Fits(last'.size) : b.size <= k
      ]_vars

\* C3 witness: an insert succeeded with the smaller of two free blocks that
\* could both hold the request; the larger one is still free.
BestFitWitness ==
    /\ last.op = "insert" /\ last.res = "Allocated"
    /\ \E b \in FreeSet(free_blocks) : b.size > last.block.size

\* C4 (id uniqueness and monotonicity): the ids returned by the successful
\* inserts of a run strictly increase, so none is returned twice, freed or not;
\* every allocated block carries the id it is stored under, an id that was
\* returned, and no two allocated blocks carry the same id.
IdsIncrease ==
    /\ \A i, j \in 1..Len(returned) : i < j => returned[i] < returned[j]
    /\ \A id \in DOMAIN allocated_blocks :
          /\ allocated_blocks[id].id = id
          /\ \E i \in 1..Len(returned) : returned[i] = id
    /\ \A g, h \in DOMAIN allocated_blocks :
          g # h => allocated_blocks[g].id # allocated_blocks[h].id
    /\ \A i \in 1..Len(returned) : returned[i] < next_id

\* C4 witness: a third insert succeeded after the block of an earlier id was
\* freed, in the very extent that block had.
IdsIncreaseWitness ==
    /\ last.op = "insert" /\ last.res = "Allocated"
    /\ Len(returned) >= 3
    /\ \E i \in 1..Len(returned) : returned[i] \notin DOMAIN allocated_blocks
    /\ allocated_blocks[last.id].start = 0
    /\ Cardinality(DOMAIN allocated_blocks) >= 2

\* Number of free blocks of an index.
FreeCount(fb) == Cardinality(UNION {{<<k, i>> : i \in 1..Len(fb[k])} : k \in DOMAIN fb})

\* Every free block of fb is still in gb, under the same key at the same place.
FreeKept(fb, gb) ==
    \A k \in DOMAIN fb :
        /\ k \in DOMAIN gb
        /\ Len(gb[k]) >= Len(fb[k])
        /\ \A i \in 1..Len(fb[k]) : gb[k][i] = fb[k][i]

\* C5 (block splitting): a successful insert of n bytes takes one free block
\* {s, S} out of the index, stores the allocated block {s, n} under the new
\* id, puts exactly one free block {s + n, S - n} into the index when S > n and
\* none when S = n, and leaves every other free and allocated block as it was.
BlockSplitting ==
    [][(last'.op = "insert" /\ last'.res = "Allocated") =>
        \E b \in FreeSet(free_blocks) :
            LET n   == last'.size
                id  == last'.id
                rem == IF b.size > n
                       THEN {MemoryBlock(b.start + n, b.size - n, FALSE, None)}
                       ELSE {}
            IN  /\ b.size >= n
                /\ FreeSet(free_blocks') = (FreeSet(free_blocks) \ {b}) \cup rem
                /\ FreeCount(free_blocks') = FreeCount(free_blocks) - 1 + Cardinality(rem)
                /\ \A k \in DOMAIN free_blocks' :
                      \A i \in 1..Len(free_blocks'[k]) : free_blocks'[k][i].size = k
                /\ id \notin DOMAIN allocated_blocks
                /\ DOMAIN allocated_blocks' = DOMAIN allocated_blocks \cup {id}
                /\ allocated_blocks'[id] = MemoryBlock(b.start, n, TRUE, id)
                /\ \A j \in DOMAIN allocated_blocks :
                      allocated_blocks'[j] = allocated_blocks[j]
      ]_vars

\* C5 witness: a second insert has split a free block while a smaller free
\* block was there; the leftover is in the index.
BlockSplittingWitness ==
    /\ last.op = "insert" /\ last.res = "Allocated"
    /\ last.block.size > last.size
    /\ FreeCount(free_blocks) >= 2
    /\ Len(returned) >= 2
    /\ MemoryBlock(last.block.start + last.size, last.block.size - last.size, FALSE, None)
           \in FreeSet(free_blocks)

\* C6 (frame of delete): delete of an allocated id removes that entry and no
\* other from allocated_blocks, adds one free block of the same start and size
\* to the index, and leaves every other free block, every other allocated
\* block, next_id and the arena as they were.
DeleteFrame ==
    [][(last'.op = "delete" /\ last'.id \in DOMAIN allocated_blocks) =>
        LET id == last'.id
            b  == allocated_blocks[id]
        IN  /\ last'.res = "Deleted"
            /\ DOMAIN allocated_blocks' = DOMAIN allocated_blocks \ {id}
            /\ \A j \in DOMAIN allocated_blocks' :
                  allocated_blocks'[j] = allocated_blocks[j]
            /\ FreeKept(free_blocks, free_blocks')
            /\ FreeCount(free_blocks') = FreeCount(free_blocks) + 1
            /\ b.size \in DOMAIN free_blocks'
            /\ free_blocks'[b.size][Len(free_blocks'[b.size])]
                   = MemoryBlock(b.start, b.size, FALSE, None)
            /\ next_id' = next_id
            /\ memory' = memory
            /\ ~panicked'
      ]_vars

\* C6 witness: a block was freed while a free block of the same size and
\* another allocated block were there.
DeleteFrameWitness ==
    /\ last.op = "delete" /\ last.res = "Deleted"
    /\ Len(free_blocks[last.block.size]) >= 2
    /\ allocated_blocks # <<>>
    /\ \E i \in DOMAIN memory : memory[i] # 0

\* Two blocks that touch: g starts where f ends.
Adjacent(f, g) == f.start + f.size = g.start

\* Every block freed by delete and not reused since is a free block of its
\* own, and no free block spans two adjacent ones.
SeparateFreed ==
    /\ freed \subseteq FreeSet(free_blocks)
    /\ \A f, g \in freed :
          Adjacent(f, g) =>
              MemoryBlock(f.start, f.size + g.size, FALSE, None) \notin FreeSet(free_blocks)

\* The freed blocks f, g are adjacent and n is more than each of them holds but
\* not more than both together.
FitsOnlyMerged(f, g, n) ==
    /\ Adjacent(f, g)
    /\ n > f.size /\ n > g.size
    /\ n <= f.size + g.size

\* C7 as stated (no coalescing): two adjacent blocks that were freed stay two
\* free blocks, and any later insert of a size beyond each of them but within
\* their sum fails: it returns no id.
NoCoalescingAsStated ==
    [][/\ SeparateFreed'
       /\ (/\ last'.op = "insert"
           /\ \E f, g \in freed : FitsOnlyMerged(f, g, last'.size))
          => last'.res # "Allocated"
      ]_vars

\* C7 as amended: two adjacent blocks that were freed stay two free blocks,
\* and a later insert of a size beyond each of them but within their sum
\* returns None and changes nothing whenever no other free block has at least
\* that size.
NoCoalescing ==
    [][/\ SeparateFreed'
       /\ (/\ last'.op = "insert"
           /\ \E f, g \in freed : FitsOnlyMerged(f, g, last'.size)
           /\ \A b \in FreeSet(free_blocks) : b.size < last'.size)
          => /\ last'.res = "AllocationFailed"
             /\ free_blocks' = free_blocks
             /\ allocated_blocks' = allocated_blocks
      ]_vars

\* C7 witness: an insert has just returned None although two adjacent freed
\* blocks together would have held it.
NoCoalescingWitness ==
    /\ last.op = "insert" /\ last.res = "AllocationFailed"
    /\ \E f, g \in freed : FitsOnlyMerged(f, g, last.size)
    /\ SeparateFreed

\* C8 (out of memory is atomic): an insert of n bytes that finds no free block
\* of size >= n returns None, which is reported, and leaves free_blocks,
\* allocated_blocks, next_id and the arena as they were.
OutOfMemoryAtomic ==
    [][(/\ last'.op = "insert"
        /\ \A b \in FreeSet(free_blocks) : b.size < last'.size)
       => /\ last'.res = "AllocationFailed"
          /\ last'.id = None
          /\ free_blocks' = free_blocks
          /\ allocated_blocks' = allocated_blocks
          /\ next_id' = next_id
          /\ memory' = memory
          /\ ~panicked'
      ]_vars

\* C8 witness: an insert has just failed in an arena that holds an allocated
\* block, stored bytes and free blocks that are all too small.
OutOfMemoryWitness ==
    /\ last.op = "insert" /\ last.res = "AllocationFailed"
    /\ next_id > 0
    /\ allocated_blocks # <<>>
    /\ free_blocks # <<>>
    /\ \E i \in DOMAIN memory : memory[i] # 0

\* C9 (data longer than the size is rejected): an insert whose data is longer
\* than its size is reported as a failure, does not abort the run and leaves
\* free_blocks, allocated_blocks, next_id and the arena as they were.
LongDataRejected ==
    [][(last'.op = "insert" /\ Len(last'.data) > last'.size)
       => /\ last'.res = "AllocationFailed"
          /\ ~panicked'
          /\ free_blocks' = free_blocks
          /\ allocated_blocks' = allocated_blocks
          /\ next_id' = next_id
          /\ memory' = memory
      ]_vars

\* C10 (round trip): an insert of n > 0 bytes with data of at most n bytes
\* succeeds whenever a free block of size >= n exists, and a find or a read of
\* the returned id right after it yields n bytes that start with the data.
RoundTrip ==
    [][/\ (/\ last'.op = "insert"
           /\ last'.size > 0
           /\ Len(last'.data) <= last'.size
           /\ Fits(last'.size) # {})
          => last'.res = "Allocated"
       /\ (/\ last.op = "insert" /\ last.res = "Allocated"
           /\ last'.op \in {"find", "read"}
           /\ last'.id = last.id)
          => /\ Len(last'.view) = last.size
             /\ \A i \in 1..Len(last.data) : last'.view[i] = last.data[i]
      ]_vars

\* C11 (update boundary): an update of an allocated id whose block has size s
\* succeeds for data of s bytes and of fewer bytes; for data of s + 1 bytes
\* and of more bytes it fails as too large and leaves the arena,
\* allocated_blocks and free_blocks as they were.
UpdateBoundary ==
    [][(last'.op = "update" /\ last'.id \in DOMAIN allocated_blocks) =>
        LET s == allocated_blocks[last'.id].size
            n == Len(last'.data)
        IN  /\ n <= s => /\ last'.res = "Updated"
                         /\ slice(memory', allocated_blocks[last'.id].start, n) = last'.data
            /\ n > s => /\ last'.res = "TooLarge"
                        /\ memory' = memory
                        /\ allocated_blocks' = allocated_blocks
                        /\ free_blocks' = free_blocks
            /\ ~panicked'
      ]_vars

\* C11 witness: an update with one byte more than the block holds has just
\* been turned away, and the block still holds what insert stored.
UpdateBoundaryWitness ==
    /\ last.op = "update" /\ last.res = "TooLarge"
    /\ Len(last.data) = last.block.size + 1
    /\ last.id \in DOMAIN allocated_blocks
    /\ memory[last.block.start] = 1

\* C12 (frame of a successful update): a successful update writes new_data to
\* the bytes [start, start + len(new_data)) of its block and changes nothing
\* else: not the rest of the block, not a byte outside it, not the block's
\* start and size, no other allocated block, not free_blocks, not next_id.
UpdateFrame ==
    [][(last'.op = "update" /\ last'.res = "Updated") =>
        LET b == allocated_blocks[last'.id]
            n == Len(last'.data)
        IN  /\ \A i \in DOMAIN memory :
                  memory'[i] = IF b.start <= i /\ i < b.start + n
                               THEN last'.data[i - b.start + 1]
                               ELSE memory[i]
            /\ DOMAIN memory' = DOMAIN memory
            /\ allocated_blocks' = allocated_blocks
            /\ free_blocks' = free_blocks
            /\ next_id' = next_id
      ]_vars

\* C12 witness: an update has just overwritten the first byte of a longer
\* block whose next byte still holds what insert stored, next to other stored
\* bytes.
UpdateFrameWitness ==
    /\ last.op = "update" /\ last.res = "Updated"
    /\ Len(last.data) < last.block.size
    /\ memory[last.block.start] = 2
    /\ memory[last.block.start + Len(last.data)] = 2
    /\ \E i \in DOMAIN memory :
          (i < last.block.start \/ i >= last.block.start + last.block.size) /\ memory[i] # 0

\* The ids that no allocated block carries: those insert never returned and
\* those delete has released.
Stale == {id \in Ids : id \notin {returned[i] : i \in DOMAIN returned} \/ id \in deleted}

\* C13 (unknown id): delete, find, read and update called with an id that was
\* never returned or was already released, a second delete of the same id
\* included, report that there is no such block, do not abort, and leave
\* free_blocks, allocated_blocks, next_id and the arena unchanged.
UnknownId ==
    [][(last'.op \in {"delete", "find", "read", "update"} /\ last'.id \in Stale) =>
        /\ last'.res = (IF last'.op = "find" THEN "Nothing" ELSE "NotFound")
        /\ last'.view = <<>>
        /\ ~panicked'
        /\ UNCHANGED <<free_blocks, allocated_blocks, next_id, memory>>
      ]_vars

\* C13 witness: an id that delete released a while ago has just been deleted
\* a second time, while other blocks are allocated and bytes are stored.
UnknownIdWitness ==
    /\ last.op = "delete" /\ last.res = "NotFound"
    /\ last.id \in deleted
    /\ allocated_blocks # << >>
    /\ \E i \in DOMAIN memory : memory[i] # 0

\* The free index holds exactly the extents F (pairs <<start, size>>) and the
\* allocation table exactly the blocks A (triples <<id, start, size>>).
Holds(F, A) ==
    /\ {<<b.start, b.size>> : b \in FreeSet(free_blocks)} = F
    /\ FreeCount(free_blocks) = Cardinality(F)
    /\ \A k \in DOMAIN free_blocks : \A i \in 1..Len(free_blocks[k]) : free_blocks[k][i].size = k
    /\ {<<id, allocated_blocks[id].start, allocated_blocks[id].size>> : id \in DOMAIN allocated_blocks} = A

\* The command INSERT n t with a one-byte data token t has just been processed.
InsertToken(n) == last'.op = "insert" /\ last'.size = n /\ last'.data = <<1>>

\* C14 (end-to-end scenario), with the sizes 30, 40 and the capacity 100 scaled
\* to 1, MEMORY_SIZE - 2 and MEMORY_SIZE: on a fresh allocator INSERT 1 A
\* returns id 0 at [0, 1); INSERT MEMORY_SIZE-2 B returns id 1 right behind it;
\* DELETE 0 frees [0, 1); INSERT 1 C right after it returns id 2 at exactly
\* [0, 1); and DUMP then lists one free block (the last byte) and the
\* allocated ids 1 and 2.
Scenario ==
    [][LET M  == MEMORY_SIZE
           S0 == next_id = 0 /\ Holds({<<0, M>>}, {})
           S1 == next_id = 1 /\ Holds({<<1, M - 1>>}, {<<0, 0, 1>>})
           S2 == next_id = 2 /\ Holds({<<M - 1, 1>>}, {<<0, 0, 1>>, <<1, 1, M - 2>>})
           S3 == /\ next_id = 2 /\ Holds({<<M - 1, 1>>, <<0, 1>>}, {<<1, 1, M - 2>>})
                 /\ last.op = "delete" /\ last.res = "Deleted" /\ last.id = 0
           S4 == next_id = 3 /\ Holds({<<M - 1, 1>>}, {<<1, 1, M - 2>>, <<2, 0, 1>>})
       IN  /\ (S0 /\ InsertToken(1)) => (last'.res = "Allocated" /\ last'.id = 0 /\ S1')
           /\ (S1 /\ InsertToken(M - 2)) => (last'.res = "Allocated" /\ last'.id = 1 /\ S2')
           /\ (S2 /\ last'.op = "delete" /\ last'.id = 0) => (last'.res = "Deleted" /\ S3')
           /\ (S3 /\ InsertToken(1)) => (last'.res = "Allocated" /\ last'.id = 2 /\ S4')
           /\ (S4 /\ last'.op = "dump") =>
                  /\ S4'
                  /\ last'.report = << Line("FREE", None, M - 1, 1),
                                       Line("ALLOCATED", 1, 1, M - 2),
                                       Line("ALLOCATED", 2, 0, 1) >>
      ]_vars

\* C15 (block bounds): every free block and every allocated block has a size
\* above 0, a start within the arena, and ends within the arena, whatever
\* sizes, 0 included, the INSERT records asked for.
BlockBounds ==
    \A h \in LiveHandles :
        LET b == BlockAt(h)
        IN  /\ b.size > 0
            /\ 0 <= b.start /\ b.start < MEMORY_SIZE
            /\ b.start + b.size <= MEMORY_SIZE

\* C15 witness: an insert of size 0 has just been processed while both a free
\* block and an allocated block exist.
BlockBoundsWitness ==
    /\ last.op = "insert" /\ last.size = 0
    /\ FreeHandles # {}
    /\ AllocatedHandles # {}

\* C16 (read is find): for an allocated id, read and find both yield the bytes
\* the arena holds in [start, start + size) of that block; for an absent id
\* read reports that the id was not found and find yields nothing.
ReadAsFind ==
    /\ (last.op \in {"find", "read"} /\ last.id \in DOMAIN allocated_blocks) =>
           last.view = slice(memory, allocated_blocks[last.id].start,
                             allocated_blocks[last.id].size)
    /\ (last.op = "find" /\ last.id \notin DOMAIN allocated_blocks) => last.res = "Nothing"
    /\ (last.op = "read" /\ last.id \notin DOMAIN allocated_blocks) => last.res = "NotFound"

\* The lines of a dump report of the given kind, in report order.
LinesOf(report, kind) == SelectSeq(report, LAMBDA l : l.kind = kind)

\* C17 (read-only operations): find, read and dump leave free_blocks,
\* allocated_blocks, next_id and the arena as they were, whatever their
\* argument; and the report of dump lists every free block once, by size
\* ascending, and after them every allocated block once, by id ascending.
ReadOnly ==
    [][(last'.op \in {"find", "read", "dump"}) =>
        /\ UNCHANGED <<free_blocks, allocated_blocks, next_id, memory>>
        /\ last'.op = "dump" =>
            LET r == last'.report
                F == LinesOf(r, "FREE")
                A == LinesOf(r, "ALLOCATED")
            IN  /\ r = F \o A
                /\ Len(F) = FreeCount(free_blocks)
                /\ {<<F[i].start, F[i].size>> : i \in DOMAIN F}
                       = {<<b.start, b.size>> : b \in FreeSet(free_blocks)}
                /\ \A i, j \in DOMAIN F : i < j => F[i].size <= F[j].size
                /\ Len(A) = Cardinality(DOMAIN allocated_blocks)
                /\ {<<A[i].id, A[i].start, A[i].size>> : i \in DOMAIN A}
                       = {<<id, allocated_blocks[id].start, allocated_blocks[id].size>>
                          : id \in DOMAIN allocated_blocks}
                /\ \A i, j \in DOMAIN A : i < j => A[i].id < A[j].id
      ]_vars

\* C17 witness: a dump has just reported free blocks of two sizes and an
\* allocated block, with bytes stored in the arena.
ReadOnlyWitness ==
    /\ last.op = "dump"
    /\ \E i, j \in DOMAIN last.report :
          /\ last.report[i].kind = "FREE" /\ last.report[j].kind = "FREE"
          /\ last.report[i].size # last.report[j].size
    /\ \E i \in DOMAIN last.report : last.report[i].kind = "ALLOCATED"
    /\ \E i \in DOMAIN memory : memory[i] # 0

\* The record has too few arguments for its verb, is a READ with an argument
\* count other than one, or has a first argument that is no unsigned integer.
Malformed(verb, args, numeric) ==
    /\ verb \in {"INSERT", "DELETE", "FIND", "READ", "UPDATE"}
    /\ \/ args < (IF verb \in {"INSERT", "UPDATE"} THEN 2 ELSE 1)
       \/ verb = "READ" /\ args # 1
       \/ ~numeric

\* C18 (malformed records): every INSERT, DELETE, FIND, READ or UPDATE record
\* with too few arguments, a READ with an argument count other than one, or a
\* size or id that is not a number, and every record with an unknown verb,
\* has an error reported, calls no allocator operation, leaves the allocator
\* as it was, and processing goes on.
MalformedReported ==
    [][(/\ last'.op = "record"
        /\ \/ Malformed(last'.verb, last'.args, last'.numeric)
           \/ last'.verb \notin {"INSERT", "DELETE", "FIND", "READ", "UPDATE", "DUMP"})
       => /\ last'.res \in {"Invalid", "InvalidFormat", "Unknown"}
          /\ ~panicked'
          /\ UNCHANGED <<free_blocks, allocated_blocks, next_id, memory>>
      ]_vars

\* fb without the last block of the group k, and without the group when that
\* was its only block.
pop_back(fb, k) ==
    IF Len(fb[k]) = 1 THEN [j \in DOMAIN fb \ {k} |-> fb[j]]
    ELSE [fb EXCEPT ![k] = SubSeq(fb[k], 1, Len(fb[k]) - 1)]

\* C19 (live blocks): the number of live blocks, free and allocated, goes up
\* by one on a successful insert that splits a larger free block and is left
\* as it was by every other step: an exact-fit insert, delete, update, find,
\* read, dump and every operation that fails; so it never goes down.
LiveBlocksGrow ==
    [][Cardinality(LiveHandles') =
           Cardinality(LiveHandles)
           + (IF /\ last'.op = "insert" /\ last'.res = "Allocated"
                 /\ last'.block.size > last'.size
              THEN 1 ELSE 0)
      ]_vars

\* C20 (last in, first out): an insert that takes a free block takes the last
\* block of its group, the one pushed most recently, and leaves the older
\* blocks of the group in place; so an insert of n bytes right after the
\* delete of a block of n bytes never fails for lack of space, takes exactly
\* the block just freed out of the index and, when it returns an id, stores
\* the new block in exactly that extent, the other free blocks staying free.
Lifo ==
    [][/\ (last'.op = "insert" /\ last'.res \in {"Allocated", "panic"}) =>
              LET grp == free_blocks[last'.block.size]
              IN  /\ last'.block = grp[Len(grp)]
                  /\ Consumed = {last'.block}
                  /\ IF Len(grp) = 1
                     THEN last'.block.size \notin DOMAIN free_blocks'
                     ELSE free_blocks'[last'.block.size] = SubSeq(grp, 1, Len(grp) - 1)
       /\ (/\ last.op = "delete" /\ last.res = "Deleted"
           /\ last'.op = "insert" /\ last'.size = last.block.size) =>
              /\ last'.res # "AllocationFailed"
              /\ last'.block = new_block(last.block)
              /\ Consumed = {new_block(last.block)}
              /\ last'.res = "Allocated" =>
                     /\ allocated_blocks'[last'.id].start = last.block.start
                     /\ allocated_blocks'[last'.id].size = last.block.size
                     /\ free_blocks' = pop_back(free_blocks, last.block.size)
      ]_vars

\* C20 witness: an insert has just been served from a block that delete had
\* freed, while an older free block of the same size is still in the index.
LifoWitness ==
    /\ last.op = "insert" /\ last.res = "Allocated"
    /\ last.block.size = last.size
    /\ last.size \in DOMAIN free_blocks
    /\ \E b \in freed : b.size = last.size /\ b.start < last.block.start
    /\ deleted # {}
====
